---- MODULE Spec2Model ----
(***************************************************************************)
(* A model of addimage.py: stylise_pdf re-renders every page of a source   *)
(* document onto a fresh page (background, raster images, vector drawings, *)
(* text) and saves the result.                                             *)
(*                                                                         *)
(* Python values whose type the code inspects are tagged records           *)
(* [t |-> <type>, v |-> <value>]; a dict is a record whose DOMAIN is the   *)
(* set of keys present.  Floats are scaled integers:                       *)
(*   colour channels   numerator n of n/255.0                              *)
(*   stroke widths     tenths of a point                                   *)
(*   matrix entries    units of 1e-4                                       *)
(*   page sizes        half points                                         *)
(***************************************************************************)
EXTENDS Integers, Sequences, FiniteSets, TLC

\* ---------------------------------------------------------------- bounds
MaxPages  == 2
MaxBlocks == 2
MaxGroups == 2
MaxItems  == 2

\* ------------------------------------------------------- python values
None == [t |-> "None"]
PyInt(n)   == [t |-> "int", v |-> n]
PyFloat(n) == [t |-> "float", v |-> n]
PyStr(s)   == [t |-> "str", v |-> s]
PyList(s)  == [t |-> "list", v |-> s]
PyTuple(s) == [t |-> "tuple", v |-> s]

\* dict.get(key, default)
Get(d, k, default) == IF k \in DOMAIN d THEN d[k] ELSE default

\* Python truthiness of an optional integer: `not x` holds for None and 0
Falsy(x) == x.t = "None" \/ (x.t = "int" /\ x.v = 0)

SeqUpTo(S, n) == UNION {[1..k -> S] : k \in 0..n}

RECURSIVE Flatten(_)
Flatten(ss) == IF ss = <<>> THEN <<>> ELSE Head(ss) \o Flatten(Tail(ss))

\* ------------------------------------------------------------ integers
\* a & b for any integer a and b >= 0 (two's complement, bit by bit)
RECURSIVE BitAnd(_, _)
BitAnd(a, b) ==
    IF b = 0 THEN 0
    ELSE ((a % 2) * (b % 2)) + 2 * BitAnd(a \div 2, b \div 2)

\* a >> n
ShiftRight(a, n) == a \div (2 ^ n)

\* ------------------------------------------------------- colour codec
White == <<255, 255, 255>>

int_to_rgb_float_swapped(color_int) ==
    IF color_int.t = "None" THEN White
    ELSE LET red   == BitAnd(color_int.v, 255)
             green == BitAnd(ShiftRight(color_int.v, 8), 255)
             blue  == BitAnd(ShiftRight(color_int.v, 16), 255)
         IN  <<red, green, blue>>

int_to_rgb_float(color_int) ==
    IF color_int.t = "None" THEN White
    ELSE LET blue  == BitAnd(color_int.v, 255)
             green == BitAnd(ShiftRight(color_int.v, 8), 255)
             red   == BitAnd(ShiftRight(color_int.v, 16), 255)
         IN  <<red, green, blue>>

\* epsilon = 5.0 / 255.0, as a channel numerator
Epsilon == 5

\* any(ch > epsilon for ch in orig_color)
is_non_black(orig_color) == \E i \in 1..3 : orig_color[i] > Epsilon

choose_color_all(orig_color) ==
    IF \A i \in 1..3 : orig_color[i] > Epsilon THEN orig_color ELSE White

choose_color(orig_color) ==
    IF is_non_black(orig_color) THEN orig_color ELSE White

\* ------------------------------------------------------ font classifier
ToLower == [A |-> "a", B |-> "b", C |-> "c", D |-> "d", E |-> "e", F |-> "f",
            G |-> "g", H |-> "h", I |-> "i", J |-> "j", K |-> "k", L |-> "l",
            M |-> "m", N |-> "n", O |-> "o", P |-> "p", Q |-> "q", R |-> "r",
            S |-> "s", T |-> "t", U |-> "u", V |-> "v", W |-> "w", X |-> "x",
            Y |-> "y", Z |-> "z"]

\* str.lower() on a sequence of characters
Lower(s) == [i \in 1..Len(s) |-> IF s[i] \in DOMAIN ToLower THEN ToLower[s[i]] ELSE s[i]]

\* sub in s
Contains(sub, s) ==
    \E i \in 1..(Len(s) - Len(sub) + 1) : SubSeq(s, i, i + Len(sub) - 1) = sub

map_font(pdf_font_name) ==
    LET f       == Lower(pdf_font_name)
        bold    == Contains(<<"b", "o", "l", "d">>, f)
        italic  == Contains(<<"i", "t", "a", "l", "i", "c">>, f)
        oblique == Contains(<<"o", "b", "l", "i", "q", "u", "e">>, f)
    IN  IF bold /\ (italic \/ oblique) THEN "Times-BoldItalic"
        ELSE IF bold THEN "Times-Bold"
        ELSE IF italic \/ oblique THEN "Times-Italic"
        ELSE "Times-Roman"

\* -------------------------------------------------- background synthesis
\* int(x) of a positive size given in half points
Trunc(x) == x \div 2

\* bg.resize((int(w), int(h))), then blur and grain: the size is kept
apply_blur_and_grain(pil_img) == [width |-> pil_img.width, height |-> pil_img.height]

Resize(w, h) == [width |-> Trunc(w), height |-> Trunc(h)]

\* ------------------------------------------------------ page canvas calls
\* What one call sequence yields: the draw operations issued on the page and
\* whether an exception left the code that issued them.
Drawn(op)  == [ops |-> <<op>>, raised |-> FALSE]
Nothing    == [ops |-> <<>>,   raised |-> FALSE]
Raise      == [ops |-> <<>>,   raised |-> TRUE]

\* isinstance(pts, (list, tuple))
IsSeq(x) == x.t \in {"list", "tuple"}

\* fitz.Point(p) accepts a pair of numbers
PointLike(p) == IsSeq(p) /\ Len(p.v) = 2 /\ \A i \in 1..2 : p.v[i].t \in {"int", "float"}

\* fitz.Rect(pts) accepts a sequence of four numbers
RectLike(pts) == IsSeq(pts) /\ Len(pts.v) = 4 /\ \A i \in 1..4 : pts.v[i].t \in {"int", "float"}

IsNumber(x) == x.t \in {"int", "float"}

\* width floor of a rectangle outline, in tenths: max(0.5, draw_width)
MinRectWidth == 5

Max(a, b) == IF a >= b THEN a ELSE b

\* lines 86-88: no handler around the point conversion or the call
DrawLine(pts, draw_color, draw_width, callOk) ==
    IF ~PointLike(pts.v[1]) \/ ~PointLike(pts.v[2]) THEN Raise
    ELSE IF ~callOk THEN Raise
    ELSE Drawn([op |-> "draw_line", p1 |-> pts.v[1], p2 |-> pts.v[2],
                color |-> draw_color, width |-> draw_width])

DrawRectNoTry(pts, draw_color, draw_width, callOk) ==
    IF ~RectLike(pts) \/ ~IsNumber(draw_width) \/ ~callOk THEN Raise
    ELSE Drawn([op |-> "draw_rect", rect |-> pts.v, color |-> draw_color,
                fill |-> None,
                width |-> PyFloat(Max(MinRectWidth, draw_width.v))])

\* lines 89-94: try ... except Exception: pass
DrawRect(pts, draw_color, draw_width, callOk) ==
    IF ~RectLike(pts) \/ ~IsNumber(draw_width) \/ ~callOk THEN Nothing
    ELSE Drawn([op |-> "draw_rect", rect |-> pts.v, color |-> draw_color,
                fill |-> None,
                width |-> PyFloat(Max(MinRectWidth, draw_width.v))])

\* lines 95-100
DrawPolyline(pts, draw_color, draw_width, callOk) ==
    IF (\E i \in 1..Len(pts.v) : ~PointLike(pts.v[i])) \/ ~callOk THEN Nothing
    ELSE Drawn([op |-> "draw_polyline", points |-> pts.v,
                color |-> draw_color, width |-> draw_width])

\* lines 101-106
DrawBezier(pts, draw_color, draw_width, callOk) ==
    IF (\E i \in 1..Len(pts.v) : ~PointLike(pts.v[i])) \/ ~callOk THEN Nothing
    ELSE Drawn([op |-> "draw_bezier", points |-> pts.v,
                color |-> draw_color, width |-> draw_width])

NoTyp == "None"

\* lines 84-107: dispatch on the command tag of one path segment
DrawItem(item, draw_color, draw_width, callOk) ==
    LET typ == IF Len(item) > 0 THEN item[1] ELSE NoTyp
        pts == IF Len(item) > 1 THEN item[2] ELSE PyList(<<>>)
    IN  IF typ \in {"l", "L"} /\ IsSeq(pts) /\ Len(pts.v) >= 2
          THEN DrawLine(pts, draw_color, draw_width, callOk)
        ELSE IF typ = "re" /\ IsSeq(pts)
          THEN DrawRect(pts, draw_color, draw_width, callOk)
        ELSE IF typ \in {"qu", "p"} /\ IsSeq(pts)
          THEN DrawPolyline(pts, draw_color, draw_width, callOk)
        ELSE IF typ \in {"c", "be", "b"} /\ IsSeq(pts)
          THEN DrawBezier(pts, draw_color, draw_width, callOk)
        ELSE Nothing

\* lines 73-81: stroke colour of a drawing group
ResolveColor(d) ==
    LET color_val == Get(d, "color", None)
    IN  IF color_val.t = "None" THEN White
        ELSE IF IsSeq(color_val) THEN color_val.v
        ELSE IF color_val.t = "int" THEN int_to_rgb_float(color_val)
        ELSE White

\* default stroke width 1.0, in tenths
DefaultWidth == 10

\* line 82: d.get("width", d.get("linewidth", 1.0))
ResolveWidth(d) == Get(d, "width", Get(d, "linewidth", PyFloat(DefaultWidth)))

\* lines 59-68: one block in the image phase
PlaceImage(b, fetchOk, callOk) ==
    IF Get(b, "type", None) # PyInt(1) THEN Nothing
    ELSE LET xref == Get(b, "xref", None)
         IN  IF Falsy(xref) THEN Nothing
             ELSE IF ~fetchOk \/ ~callOk THEN Raise
             ELSE Drawn([op |-> "insert_image", rect |-> b.bbox,
                         stream |-> [from |-> "xref", xref |-> xref.v],
                         overlay |-> TRUE])

\* lines 48-51: the background placement
PlaceBackground(page) ==
    LET w == page.rect.width
        h == page.rect.height
        bg_resized == apply_blur_and_grain(Resize(w, h))
    IN  [op |-> "insert_image", rect |-> page.rect,
         stream |-> [from |-> "bg", width |-> bg_resized.width,
                     height |-> bg_resized.height],
         overlay |-> FALSE]

NewPageTruncated(page) ==
    [width |-> 2 * Trunc(page.rect.width), height |-> 2 * Trunc(page.rect.height),
     ops |-> <<PlaceBackground(page)>>]

\* lines 44-51: dst.new_page(width=w, height=h) and its background
NewPage(page) ==
    [width |-> page.rect.width, height |-> page.rect.height,
     ops |-> <<PlaceBackground(page)>>]

\* rotation tolerance 1e-3, in units of 1e-4
ShearTol == 10

Abs(x) == IF x < 0 THEN -x ELSE x

IdentityMatrix == PyList(<<10000, 0, 0, 10000, 0, 0>>)

InsertSpanFlipped(span, color) ==
    LET matrix == Get(span, "matrix", IdentityMatrix)
    IN  IF Abs(matrix.v[2]) > ShearTol
        THEN [op |-> "insert_textbox", rect |-> span.bbox, text |-> span.text,
              fontname |-> map_font(span.font), fontsize |-> span.size,
              color |-> color, rotate |-> IF matrix.v[2] > 0 THEN -90 ELSE 90,
              align |-> "TEXT_ALIGN_LEFT"]
        ELSE [op |-> "insert_text", point |-> span.origin, text |-> span.text,
              fontname |-> map_font(span.font), fontsize |-> span.size,
              color |-> color]

\* lines 116-118, 132-150: the insertion call made for one span
InsertSpan(span, color) ==
    LET matrix == Get(span, "matrix", IdentityMatrix)
    IN  IF Abs(matrix.v[2]) > ShearTol
        THEN [op |-> "insert_textbox", rect |-> span.bbox, text |-> span.text,
              fontname |-> map_font(span.font), fontsize |-> span.size,
              color |-> color, rotate |-> IF matrix.v[2] > 0 THEN 90 ELSE -90,
              align |-> "TEXT_ALIGN_LEFT"]
        ELSE [op |-> "insert_text", point |-> span.origin, text |-> span.text,
              fontname |-> map_font(span.font), fontsize |-> span.size,
              color |-> color]

\* lines 113-115: the spans of a page in the order the three loops visit them
SpansOfLine(line) == Get(line, "spans", <<>>)
SpansOfBlock(blk) ==
    LET lines == Get(blk, "lines", <<>>)
    IN  Flatten([i \in 1..Len(lines) |-> SpansOfLine(lines[i])])
SpansOf(text_blocks) ==
    Flatten([i \in 1..Len(text_blocks) |-> SpansOfBlock(text_blocks[i])])


\* ------------------------------------------------------------ the inputs
\* Source documents the run is started on: what the page content extractor
\* (page.get_text("dict"), page.get_drawings()) can hand to stylise_pdf.
Absent == [t |-> "absent"]

With(d, k, v) == IF v = Absent THEN d ELSE (k :> v) @@ d

FontNames ==
    { <<"A", "r", "i", "a", "l", "-", "B", "o", "l", "d", "O", "b", "l", "i", "q", "u", "e">>,
      <<"T", "i", "m", "e", "s", " ", "N", "e", "w">>,
      <<"H", "e", "l", "v", "-", "B", "O", "L", "D">>,
      <<"F", "o", "o", "-", "I", "t", "a", "l", "i", "c">>,
      <<"b", "o", "l">> }

SpanColors ==
    { Absent, None } \cup
    { PyInt(c) : c \in { 0, 6, 1536, 328965, 393216, 255, 65280, 16711680,
                         13376026, 16777215, 16777216, 33488896, -1 } }

Shears == { -5000, -11, -10, 0, 5, 10, 11, 5000 }

SpanMatrices == { Absent } \cup { PyList(<<10000, m, 0, 10000, 0, 0>>) : m \in Shears }

MkSpan(font, color, matrix) ==
    With(With([text |-> "Hello", size |-> 12, font |-> font,
               origin |-> <<72, 100>>, bbox |-> <<72, 90, 120, 102>>],
              "color", color), "matrix", matrix)

AllSpans == { MkSpan(f, c, m) : f \in FontNames, c \in SpanColors, m \in SpanMatrices }

PlainFont == <<"T", "i", "m", "e", "s", " ", "N", "e", "w">>
BlackSpan == MkSpan(PlainFont, PyInt(0), Absent)
RedSideways == MkSpan(PlainFont, PyInt(16711680), PyList(<<10000, 5000, 0, 10000, 0, 0>>))

TextBlock(lines) == [type |-> PyInt(0), lines |-> lines]
ImageBlock(xref) == With([type |-> PyInt(1), bbox |-> <<10, 10, 50, 50>>], "xref", xref)

BlockSet ==
    { ImageBlock(PyInt(7)), ImageBlock(Absent), ImageBlock(PyInt(0)),
      [type |-> PyInt(0)],
      TextBlock(<<[spans |-> <<BlackSpan>>]>>),
      TextBlock(<<[spans |-> <<RedSideways, BlackSpan>>], [bbox |-> <<0, 0, 1, 1>>],
                  [spans |-> <<BlackSpan>>]>>) }

Pt(x, y) == PyTuple(<<PyFloat(x), PyFloat(y)>>)
BadPt    == PyStr("x")

ItemSet ==
    { <<>>, <<"l">>, <<"m", PyList(<<Pt(0, 0)>>)>>,
      <<"l", PyList(<<Pt(0, 0), Pt(5, 5)>>)>>,
      <<"l", PyList(<<Pt(0, 0)>>)>>,
      <<"L", PyList(<<Pt(0, 0), BadPt>>)>>,
      <<"l", None>>,
      <<"re", PyList(<<PyFloat(0), PyFloat(0), PyFloat(9), PyFloat(9)>>)>>,
      <<"re", PyList(<<Pt(0, 0)>>)>>,
      <<"re", PyStr("r")>>,
      <<"qu", PyList(<<Pt(0, 0), Pt(5, 5), Pt(9, 0)>>)>>,
      <<"p", PyList(<<Pt(0, 0), BadPt>>)>>,
      <<"c", PyTuple(<<Pt(0, 0), Pt(1, 3), Pt(2, 3), Pt(3, 0)>>)>>,
      <<"be", PyList(<<BadPt>>)>> }

GroupColors == { Absent, None, PyTuple(<<204, 26, 26>>), PyInt(16711680), PyStr("red") }

\* <<width, linewidth>> as the extractor may report them
GroupWidths ==
    { <<Absent, Absent>>, <<PyFloat(20), Absent>>, <<PyFloat(3), Absent>>,
      <<None, Absent>>, <<Absent, PyFloat(30)>>, <<PyFloat(20), PyFloat(30)>>,
      <<None, PyFloat(30)>>, <<Absent, None>> }

MkGroup(color, widths, items) ==
    With(With(With([items |-> items], "color", color),
              "width", widths[1]), "linewidth", widths[2])

OkLine == <<"l", PyList(<<Pt(0, 0), Pt(5, 5)>>)>>
OkRect == <<"re", PyList(<<PyFloat(0), PyFloat(0), PyFloat(9), PyFloat(9)>>)>>
OkPoly == <<"qu", PyList(<<Pt(0, 0), Pt(5, 5), Pt(9, 0)>>)>>

RedGroup == MkGroup(PyInt(16711680), <<PyFloat(20), Absent>>, <<OkRect>>)

GroupSet ==
    { RedGroup,
      MkGroup(Absent, <<Absent, Absent>>, <<>>),
      MkGroup(None, <<PyFloat(3), Absent>>, <<<<"re", PyList(<<Pt(0, 0)>>)>>, OkLine>>) }

MkPage(size, blocks, drawings) ==
    [rect |-> [x0 |-> 0, y0 |-> 0, width |-> size[1], height |-> size[2]],
     blocks |-> blocks, drawings |-> drawings]

A4 == <<1190, 1684>>

PageSizes == { A4, <<1191, 1685>>, <<1224, 1584>> }

\* one element of every layer, in an order unlike the drawing order
FullBlocks == <<TextBlock(<<[spans |-> <<BlackSpan>>]>>), ImageBlock(PyInt(7))>>

PageSet == { MkPage(sz, FullBlocks, <<RedGroup>>) : sz \in PageSizes }

Pages ==
    { MkPage(A4, <<TextBlock(<<[spans |-> <<sp>>]>>)>>, <<>>) : sp \in AllSpans }
    \cup { MkPage(A4, bs, <<RedGroup>>) : bs \in SeqUpTo(BlockSet, MaxBlocks) }
    \cup { MkPage(A4, FullBlocks, <<MkGroup(c, w, <<OkLine, OkRect, OkPoly>>)>>)
             : c \in GroupColors, w \in GroupWidths }
    \cup { MkPage(A4, FullBlocks, <<MkGroup(None, <<Absent, Absent>>, its)>>)
             : its \in SeqUpTo(ItemSet, MaxItems) }
    \cup { MkPage(A4, FullBlocks, gs) : gs \in SeqUpTo(GroupSet, MaxGroups) }

Documents == { <<p>> : p \in Pages } \cup SeqUpTo(PageSet, MaxPages)

\* ------------------------------------------------------------- the state
VARIABLES
    pc,          \* where stylise_pdf is: start, loop, images, vectors, items,
                 \*   text, saved, done, failed
    err,         \* the exception that ended the run: none, open, element, save
    src,         \* the pages of the source document
    openFailed,  \* the inputs whose open raised
    dst,         \* the output document: its pages, each with its draw calls
    pnum,        \* number of source pages the loop has taken
    bi,          \* blocks visited by the image phase of the current page
    di,          \* drawing groups entered on the current page
    ii,          \* items visited in the current drawing group
    si,          \* spans visited by the text phase of the current page
    draw_color,  \* stroke colour of the current drawing group
    draw_width,  \* stroke width of the current drawing group
    orig_color,  \* decoded colour of the span last visited
    saves,       \* number of dst.save calls that returned
    closed       \* the resources closed

vars == <<pc, err, src, openFailed, dst, pnum, bi, di, ii, si,
          draw_color, draw_width, orig_color, saves, closed>>

Init ==
    /\ pc = "start"
    /\ err = "none"
    /\ src \in Documents
    /\ openFailed = {}
    /\ dst = <<>>
    /\ pnum = 0
    /\ bi = 0 /\ di = 0 /\ ii = 0 /\ si = 0
    /\ draw_color = White
    /\ draw_width = None
    /\ orig_color = White
    /\ saves = 0
    /\ closed = {}

page          == src[pnum]
text_blocks   == page.blocks
drawing_items == page.drawings
spans         == SpansOf(text_blocks)

\* the draw calls appended to the page being built
Emit(ops) == dst' = [dst EXCEPT ![pnum].ops = @ \o ops]

\* an exception nobody catches leaves stylise_pdf
Abort(kind) == pc' = "failed" /\ err' = kind

InputsOpenedIgnoringCover(okSrc, okBg) == okSrc

\* lines 39-40: both opens returned
InputsOpened(okSrc, okBg) == okSrc /\ okBg

\* lines 39-41
OpenInputs ==
    /\ pc = "start"
    /\ \E okSrc, okBg \in BOOLEAN :
         /\ openFailed' = IF ~okSrc THEN {"src"} ELSE IF ~okBg THEN {"bg"} ELSE {}
         /\ IF InputsOpened(okSrc, okBg)
              THEN pc' = "loop" /\ err' = err
              ELSE Abort("open")
    /\ UNCHANGED <<src, dst, pnum, bi, di, ii, si, draw_color, draw_width,
                   orig_color, saves, closed>>

SavedInsideLoop(n, total) == n >= 1 \/ n = total

\* line 43: the page iterator is exhausted after `total` pages
LoopExhausted(n, total) == n = total

NextPhaseTextFirst(phase) ==
    CASE phase = "images"  -> "text"
      [] phase = "text"    -> "vectors"
      [] phase = "vectors" -> "loop"

\* lines 58, 71, 113: the order of the phases of one page
NextPhase(phase) ==
    CASE phase = "images"  -> "vectors"
      [] phase = "vectors" -> "text"
      [] phase = "text"    -> "loop"

\* lines 43-55
BeginPage ==
    /\ pc = "loop"
    /\ ~LoopExhausted(pnum, Len(src))
    /\ pnum < Len(src)
    /\ pnum' = pnum + 1
    /\ dst' = Append(dst, NewPage(src[pnum + 1]))
    /\ bi' = 0 /\ di' = 0 /\ ii' = 0 /\ si' = 0
    /\ pc' = "images"
    /\ UNCHANGED <<err, src, openFailed, draw_color, draw_width, orig_color,
                   saves, closed>>

\* lines 58-68, one block
ImageStep ==
    /\ pc = "images"
    /\ bi < Len(text_blocks)
    /\ \E fetchOk, callOk \in BOOLEAN :
         LET r == PlaceImage(text_blocks[bi + 1], fetchOk, callOk)
         IN  IF r.raised
               THEN Abort("element") /\ UNCHANGED <<dst, bi>>
               ELSE Emit(r.ops) /\ bi' = bi + 1 /\ UNCHANGED <<pc, err>>
    /\ UNCHANGED <<src, openFailed, pnum, di, ii, si, draw_color, draw_width,
                   orig_color, saves, closed>>

\* line 58: the image loop is over
EndImages ==
    /\ pc = "images"
    /\ bi = Len(text_blocks)
    /\ pc' = NextPhase("images")
    /\ UNCHANGED <<err, src, openFailed, dst, pnum, bi, di, ii, si, draw_color,
                   draw_width, orig_color, saves, closed>>

\* lines 71-82: enter the next drawing group
BeginGroup ==
    /\ pc = "vectors"
    /\ di < Len(drawing_items)
    /\ di' = di + 1
    /\ ii' = 0
    /\ draw_color' = ResolveColor(drawing_items[di + 1])
    /\ draw_width' = ResolveWidth(drawing_items[di + 1])
    /\ pc' = "items"
    /\ UNCHANGED <<err, src, openFailed, dst, pnum, bi, si, orig_color, saves,
                   closed>>

\* lines 83-107, one path segment
ItemStep ==
    /\ pc = "items"
    /\ ii < Len(drawing_items[di].items)
    /\ \E callOk \in BOOLEAN :
         LET r == DrawItem(drawing_items[di].items[ii + 1], draw_color,
                           draw_width, callOk)
         IN  IF r.raised
               THEN Abort("element") /\ UNCHANGED <<dst, ii>>
               ELSE Emit(r.ops) /\ ii' = ii + 1 /\ UNCHANGED <<pc, err>>
    /\ UNCHANGED <<src, openFailed, pnum, bi, di, si, draw_color, draw_width,
                   orig_color, saves, closed>>

\* line 83: the segments of the group are exhausted
EndGroup ==
    /\ pc = "items"
    /\ ii = Len(drawing_items[di].items)
    /\ pc' = "vectors"
    /\ UNCHANGED <<err, src, openFailed, dst, pnum, bi, di, ii, si, draw_color,
                   draw_width, orig_color, saves, closed>>

\* lines 71, 110: the drawing groups are exhausted; the link rects are
\* collected and never used
EndVectors ==
    /\ pc = "vectors"
    /\ di = Len(drawing_items)
    /\ pc' = NextPhase("vectors")
    /\ UNCHANGED <<err, src, openFailed, dst, pnum, bi, di, ii, si, draw_color,
                   draw_width, orig_color, saves, closed>>

\* lines 116-150, one span
TextStep ==
    /\ pc = "text"
    /\ si < Len(spans)
    /\ LET span  == spans[si + 1]
           oc    == int_to_rgb_float(Get(span, "color", PyInt(0)))
           color == choose_color(oc)
       IN  /\ orig_color' = oc
           /\ \E callOk \in BOOLEAN :
                IF callOk
                  THEN /\ Emit(<<InsertSpan(span, color)>>)
                       /\ si' = si + 1
                       /\ UNCHANGED <<pc, err>>
                  ELSE Abort("element") /\ UNCHANGED <<dst, si>>
    /\ UNCHANGED <<src, openFailed, pnum, bi, di, ii, draw_color, draw_width,
                   saves, closed>>

\* line 113: the text loops are over, back to the page loop
EndPage ==
    /\ pc = "text"
    /\ si = Len(spans)
    /\ pc' = NextPhase("text")
    /\ UNCHANGED <<err, src, openFailed, dst, pnum, bi, di, ii, si, draw_color,
                   draw_width, orig_color, saves, closed>>

\* line 152
Save ==
    /\ pc = "loop"
    /\ LoopExhausted(pnum, Len(src))
    /\ \E ok \in BOOLEAN :
         IF ok THEN saves' = saves + 1 /\ pc' = "saved" /\ err' = err
               ELSE Abort("save") /\ saves' = saves
    /\ UNCHANGED <<src, openFailed, dst, pnum, bi, di, ii, si, draw_color,
                   draw_width, orig_color, closed>>

\* lines 153-155
Close ==
    /\ pc = "saved"
    /\ closed' = {"src", "dst", "bg"}
    /\ pc' = "done"
    /\ UNCHANGED <<err, src, openFailed, dst, pnum, bi, di, ii, si, draw_color,
                   draw_width, orig_color, saves>>

Next ==
    \/ OpenInputs
    \/ BeginPage
    \/ ImageStep
    \/ EndImages
    \/ BeginGroup
    \/ ItemStep
    \/ EndGroup
    \/ EndVectors
    \/ TextStep
    \/ EndPage
    \/ Save
    \/ Close

Spec == Init /\ [][Next]_vars

TypeOK ==
    /\ pc \in {"start", "loop", "images", "vectors", "items", "text", "saved",
               "done", "failed"}
    /\ err \in {"none", "open", "element", "save"}
    /\ pnum \in 0..Len(src)
    /\ Len(dst) = pnum

\* ------------------------------------------------------------ properties
IsBackground(op) == op.op = "insert_image" /\ ~op.overlay
IsImage(op)      == op.op = "insert_image" /\ op.overlay
IsVector(op)     == op.op \in {"draw_line", "draw_rect", "draw_polyline", "draw_bezier"}
IsText(op)       == op.op \in {"insert_text", "insert_textbox"}

Layer(op) == IF IsBackground(op) THEN 0
             ELSE IF IsImage(op) THEN 1
             ELSE IF IsVector(op) THEN 2
             ELSE 3

TextOps(ops) == SelectSeq(ops, IsText)

\* C1: on every output page the draw sequence is layered: the background
\* placement comes first and is the only one, every image placement precedes
\* every vector draw, and every vector draw precedes every text insertion.
C1_ZOrder ==
    \A p \in 1..Len(dst) :
        LET ops == dst[p].ops
        IN  /\ Len(ops) >= 1 /\ IsBackground(ops[1])
            /\ \A i, j \in 1..Len(ops) : Layer(ops[i]) < Layer(ops[j]) => i < j
            /\ \A i \in 2..Len(ops) : ~IsBackground(ops[i])

\* a finished page carrying all four layers, from a source page that lists
\* its text block before its image block
C1_Witness ==
    /\ pc = "done"
    /\ Len(dst) >= 1
    /\ src[1].blocks = FullBlocks
    /\ {Layer(dst[1].ops[i]) : i \in 1..Len(dst[1].ops)} = {0, 1, 2, 3}

\* C2: a failure while handling a single element never ends the run: no run
\* is left by an exception raised for an element.
C2_ElementFailureContained == err # "element"

\* C3: the output holds one page per source page taken so far, in source
\* order and with exactly the source page's width and height; only the
\* background image has the truncated size; at the save every page is there.
C3_PagesMirrorSource ==
    /\ Len(dst) = pnum
    /\ \A i \in 1..Len(dst) :
          /\ dst[i].width = src[i].rect.width
          /\ dst[i].height = src[i].rect.height
          /\ dst[i].ops[1].rect = src[i].rect
          /\ dst[i].ops[1].stream.width = src[i].rect.width \div 2
          /\ dst[i].ops[1].stream.height = src[i].rect.height \div 2
    /\ saves > 0 => Len(dst) = Len(src)

\* a saved two-page output whose first page has a fractional size
C3_Witness ==
    /\ pc = "done"
    /\ Len(dst) = 2
    /\ src[1].rect.width = 1191
    /\ dst[1].width = 1191
    /\ dst[1].ops[1].stream.width = 595

PhasesFinished ==
    pnum > 0 =>
        /\ bi = Len(text_blocks)
        /\ di = Len(drawing_items)
        /\ di > 0 => ii = Len(drawing_items[di].items)
        /\ si = Len(spans)

C4_SaveState ==
    /\ saves <= 1
    /\ saves = 1 => /\ pnum = Len(src)
                    /\ pc \in {"saved", "done"}
                    /\ PhasesFinished
    /\ closed # {} => saves = 1

\* C4: the output is saved at most once, only when every source page has
\* been fully reconstructed; after the save no page is created and no draw
\* call is issued; resources are closed only after the save.
C4_SingleFinalSave ==
    /\ []C4_SaveState
    /\ [][saves >= 1 => (dst' = dst /\ saves' = saves)]_vars

C4_Witness ==
    /\ pc = "done"
    /\ Len(src) = 2
    /\ saves = 1
    /\ closed = {"src", "dst", "bg"}

\* C5: when opening the source document or the cover image fails, the run
\* aborts with no output page, no draw call and no save.
C5_OpenFailureAborts ==
    openFailed # {} =>
        /\ pc = "failed"
        /\ dst = <<>>
        /\ pnum = 0
        /\ saves = 0

C5_Witness ==
    /\ openFailed = {"bg"}
    /\ pc = "failed"
    /\ Len(src) > 0

NearBlack(c) == \A i \in 1..3 : c[i] <= 5

Decoded(span) == int_to_rgb_float(Get(span, "color", PyInt(0)))

\* C6 as stated: the colour of a text insertion is white exactly when the
\* decoded colour of its span is near-black, and the decoded colour otherwise.
C6_WhiteIffNearBlack ==
    pnum > 0 =>
        LET tops == TextOps(dst[pnum].ops)
        IN  \A k \in 1..Len(tops) :
                /\ tops[k].color \in {White, Decoded(spans[k])}
                /\ tops[k].color = White <=> NearBlack(Decoded(spans[k]))

\* C6 (amended): the colour of a text insertion is white when the decoded
\* colour of its span is near-black (every channel <= 5/255) and the decoded
\* colour unchanged otherwise, which is itself white for a white or null
\* span colour; a span without a colour field renders white.
C6_RenderColor ==
    pnum > 0 =>
        LET tops == TextOps(dst[pnum].ops)
        IN  \A k \in 1..Len(tops) :
                /\ tops[k].color =
                     IF NearBlack(Decoded(spans[k])) THEN White ELSE Decoded(spans[k])
                /\ "color" \notin DOMAIN spans[k] => tops[k].color = White
                /\ tops[k].color = White <=>
                     (NearBlack(Decoded(spans[k])) \/ Decoded(spans[k]) = White)

\* a span of colour 0x060000 keeps its colour: one byte is above 5
C6_Witness ==
    /\ pc = "text"
    /\ si = 1
    /\ "color" \in DOMAIN spans[1]
    /\ spans[1].color = PyInt(393216)
    /\ TextOps(dst[pnum].ops)[1].color = <<6, 0, 0>>

BadRect(item) == item[1] = "re" /\ IsSeq(item[2]) /\ ~RectLike(item[2])
BadPoints(item) ==
    /\ item[1] \in {"qu", "p", "c", "be", "b"}
    /\ IsSeq(item[2])
    /\ \E i \in 1..Len(item[2].v) : ~PointLike(item[2].v[i])
Malformed(item) == Len(item) > 1 /\ (BadRect(item) \/ BadPoints(item))

\* C7: a malformed rectangle, polyline/quad or curve/bezier segment issues
\* no draw call and does not stop the run: the step that visits it leaves
\* the page untouched and moves on to the next segment of the same group.
C7_MalformedSegmentSkipped ==
    [][(pc = "items" /\ ii < Len(drawing_items[di].items)
          /\ Malformed(drawing_items[di].items[ii + 1]))
        => (pc' = "items" /\ err' = "none" /\ dst' = dst /\ di' = di
              /\ ii' = ii + 1)]_vars

\* a one-point rectangle was skipped, the line after it in the same group
\* was drawn and the text phase ran
C7_Witness ==
    /\ pc = "done"
    /\ Len(src) = 1
    /\ \E g \in 1..Len(src[1].drawings) :
          /\ Len(src[1].drawings[g].items) = 2
          /\ src[1].drawings[g].items[1] = <<"re", PyList(<<Pt(0, 0)>>)>>
    /\ \E i \in 1..Len(dst[1].ops) : dst[1].ops[i].op = "draw_line"
    /\ \E i \in 1..Len(dst[1].ops) : dst[1].ops[i].op = "insert_text"

Shear(span) == IF "matrix" \in DOMAIN span THEN span.matrix.v[2] ELSE 0

ExpectedInsertion(span, color) ==
    LET m == Shear(span)
        common == [text |-> span.text, fontname |-> map_font(span.font),
                   fontsize |-> span.size, color |-> color]
    IN  IF m > 10 \/ m < -10
        THEN common @@ [op |-> "insert_textbox", rect |-> span.bbox,
                        rotate |-> IF m > 0 THEN 90 ELSE -90,
                        align |-> "TEXT_ALIGN_LEFT"]
        ELSE common @@ [op |-> "insert_text", point |-> span.origin]

\* C8: each span visited yields exactly one text insertion: a textbox in the
\* span's bounding box rotated +90 (shear > 0) or -90 (shear < 0) when
\* |shear| > 1e-3, a horizontal insertion at the span's origin otherwise,
\* with the span's text, size, mapped font and chosen colour.
C8_OneInsertionPerSpan ==
    pnum > 0 =>
        LET tops == TextOps(dst[pnum].ops)
        IN  /\ Len(tops) = si
            /\ \A k \in 1..si :
                  tops[k] = ExpectedInsertion(spans[k], choose_color(Decoded(spans[k])))

\* a span with shear -0.5 went into a textbox rotated by -90
C8_Witness ==
    /\ pc = "text"
    /\ si = 1
    /\ Shear(spans[1]) = -5000
    /\ TextOps(dst[pnum].ops)[1].op = "insert_textbox"
    /\ TextOps(dst[pnum].ops)[1].rotate = -90

Channels(c) == <<(c \div 65536) % 256, (c \div 256) % 256, c % 256>>

\* C9: the colour decoded for a span is <<R, G, B>> of the packed 0x00RRGGBB
\* value, each channel in [0,1] and bits above bit 23 ignored; a null colour
\* decodes to white.
C9_Decode ==
    (pc = "text" /\ si > 0) =>
        LET c == Get(spans[si], "color", PyInt(0))
        IN  /\ \A i \in 1..3 : orig_color[i] \in 0..255
            /\ c.t = "None" => orig_color = White
            /\ c.t = "int" => orig_color = Channels(c.v)
            /\ c = PyInt(16711680) => orig_color = <<255, 0, 0>>
            /\ c = PyInt(65280) => orig_color = <<0, 255, 0>>
            /\ c = PyInt(255) => orig_color = <<0, 0, 255>>

\* 0x1FF0000, wider than 24 bits, decoded to pure red
C9_Witness ==
    /\ pc = "text"
    /\ si = 1
    /\ Get(spans[1], "color", None) = PyInt(33488896)
    /\ orig_color = <<255, 0, 0>>

ClaimedWidth(d) ==
    IF "width" \in DOMAIN d /\ IsNumber(d.width) THEN d.width
    ELSE IF "linewidth" \in DOMAIN d /\ IsNumber(d.linewidth) THEN d.linewidth
    ELSE PyFloat(10)

\* C10: the stroke width resolved for a drawing group is a number: the
\* declared width when there is one, else the secondary width when there is
\* one, else 1.0; a missing or null width with no secondary width gives 1.0.
C10_WidthResolved ==
    pc = "items" =>
        /\ IsNumber(draw_width)
        /\ draw_width = ClaimedWidth(drawing_items[di])

====
